---- MODULE Spec2Model ----
(***************************************************************************)
(* Model of trello_full_backup/backup.py: the name sanitizer, the          *)
(* attachment fetcher, the card and board exporters and the cli            *)
(* orchestrator, run against a POSIX file system (directories and files    *)
(* addressed relative to the directory the process starts in) and a        *)
(* remote API whose answers are inputs.                                    *)
(*                                                                         *)
(* Text is a sequence of one-character strings; a path is a sequence of    *)
(* path components; the start directory is the empty path.                 *)
(***************************************************************************)
EXTENDS Integers, Sequences, FiniteSets, TLC

(***************************************************************************)
(* Program constants and the bounds of the model.                          *)
(***************************************************************************)
FILE_NAME_MAX_LENGTH == 255

\* Longest short name the sanitizer specification enumerates.
MaxNameLen == 2
\* Boards the remote account holds (board ids are 1..NumBoards).
NumBoards == 2
\* Most organizations the remote account belongs to.
MaxOrgs == 1
\* Lists a board may hold (list ids are 1..NumLists).
NumLists == 2
\* Most cards in a board's cards array.
MaxCards == 3
\* Most attachments of a card.
MaxAtts == 2
\* Largest attachment size, in bytes.
MaxBytes == 3
\* Largest non-negative attachment size limit.
MaxLimit == 2

(***************************************************************************)
(* Text helpers.                                                           *)
(***************************************************************************)
\* The characters names are built from: a letter, a digit, the replacement
\* character, a dot, and the eight characters of the documented set.
Chars == {"a", "0", "_", ".", "<", ">", ":", "/", "\\", "|", "?", "*"}

\* The eight characters the documentation lists as forbidden in a path.
DocumentedForbidden == {"<", ">", ":", "/", "\\", "|", "?", "*"}

\* The character class of the regular expression r'[<>:\/\|\?\*]': inside a
\* class, \/ \| \? \* are the escaped characters / | ? *; no member of the
\* class is the backslash itself.
SanitizerClass == {"<", ">", ":", "/", "|", "?", "*"}

\* n copies of the character c.
Rep(c, n) == [i \in 1..n |-> c]

\* s[-n:] of Python for n > 0: the last n elements, all of s when it is shorter.
LastN(s, n) == IF Len(s) <= n THEN s ELSE SubSeq(s, Len(s) - n + 1, Len(s))

\* re.sub(class, '_', s): every character of the class replaced by '_'.
ReSub(class, s) == [i \in 1..Len(s) |-> IF s[i] \in class THEN "_" ELSE s[i]]

\* sanitize_file_name(name)
sanitize_file_name(name) == LastN(ReSub(SanitizerClass, name), FILE_NAME_MAX_LENGTH)

Digits == <<"0", "1", "2", "3", "4", "5", "6", "7", "8", "9">>

\* str(n) for a natural number n.
RECURSIVE str(_)
str(n) == IF n < 10 THEN <<Digits[n + 1]>> ELSE str(n \div 10) \o <<Digits[(n % 10) + 1]>>

\* Prefixed without the ordinal.
Unprefixed(ordinal, name) == name

\* str(ordinal) + '_' + name
Prefixed(ordinal, name) == str(ordinal) \o <<"_">> \o name

\* All texts over Chars of length at most n.
RECURSIVE TextsUpTo(_)
TextsUpTo(n) ==
    IF n = 0 THEN {<<>>}
    ELSE LET shorter == TextsUpTo(n - 1)
         IN  shorter \cup {Append(t, c) : t \in {u \in shorter : Len(u) = n - 1}, c \in Chars}


(***************************************************************************)
(* Fixed texts of the program.                                             *)
(***************************************************************************)
ME == <<"m", "e">>
ATTACHMENTS == <<"a", "t", "t", "a", "c", "h", "m", "e", "n", "t", "s">>
CARD_JSON == <<"c", "a", "r", "d", ".", "j", "s", "o", "n">>
DESCRIPTION_MD == <<"d", "e", "s", "c", "r", "i", "p", "t", "i", "o", "n", ".", "m", "d">>
FULL_JSON == <<"_", "f", "u", "l", "l", ".", "j", "s", "o", "n">>
DOT == <<".">>
DOTDOT == <<".", ".">>

\* a['bytes'] of an attachment whose size the API does not give (None); a
\* known size n is <<n>>.
None == <<>>

(***************************************************************************)
(* The file system: os.mkdir, os.chdir and open under POSIX path rules.    *)
(***************************************************************************)
Front(s) == SubSeq(s, 1, Len(s) - 1)

\* The components of a relative path name: split at '/', empty components
\* (doubled or trailing separators) dropped.
RECURSIVE SplitFrom(_, _)
SplitFrom(s, cur) ==
    IF s = <<>> THEN (IF cur = <<>> THEN <<>> ELSE <<cur>>)
    ELSE IF Head(s) = "/"
         THEN (IF cur = <<>> THEN <<>> ELSE <<cur>>) \o SplitFrom(Tail(s), <<>>)
         ELSE SplitFrom(Tail(s), Append(cur, Head(s)))

SplitPath(name) ==
    IF \A i \in 1..Len(name) : name[i] # "/"
    THEN (IF name = <<>> THEN <<>> ELSE <<name>>)
    ELSE SplitFrom(name, <<>>)

\* Follow the components from directory at; every directory passed through
\* must exist.
RECURSIVE Walk(_, _, _)
Walk(at, comps, d) ==
    IF comps = <<>> THEN [ok |-> TRUE, path |-> at]
    ELSE LET c == Head(comps)
             next == IF c = DOT THEN at
                     ELSE IF c = DOTDOT THEN (IF at = <<>> THEN at ELSE Front(at))
                     ELSE Append(at, c)
         IN  IF next \in d THEN Walk(next, Tail(comps), d)
             ELSE [ok |-> FALSE, path |-> at]

\* os.mkdir(name) with current directory at: the directory it creates, or
\* ok = FALSE when it raises (empty name, missing parent, existing entry).
Mkdir(at, name, d, f) ==
    LET comps == SplitPath(name)
    IN  IF comps = <<>> THEN [ok |-> FALSE, path |-> at]
        ELSE LET parent == Walk(at, Front(comps), d)
                 last == comps[Len(comps)]
                 target == Append(parent.path, last)
             IN  IF parent.ok /\ last \notin {DOT, DOTDOT} /\ target \notin d /\ target \notin f
                 THEN [ok |-> TRUE, path |-> target]
                 ELSE [ok |-> FALSE, path |-> at]

\* os.chdir(name) with current directory at.
Chdir(at, name, d) == Walk(at, SplitPath(name), d)

\* os.chdir('..')
ChdirUp(at, d) == Chdir(at, DOTDOT, d).path

\* open(name, 'w'): the file it creates or truncates, or ok = FALSE when it
\* raises (empty name, missing parent, the name of a directory).
Open(at, name, d) ==
    LET comps == SplitPath(name)
    IN  IF comps = <<>> THEN [ok |-> FALSE, path |-> at]
        ELSE LET parent == Walk(at, Front(comps), d)
                 last == comps[Len(comps)]
                 target == Append(parent.path, last)
             IN  IF parent.ok /\ last \notin {DOT, DOTDOT} /\ target \notin d
                 THEN [ok |-> TRUE, path |-> target]
                 ELSE [ok |-> FALSE, path |-> at]

\* os_access with the existence check lost.
NeverAccessible(state) == FALSE

\* os.access(dest_dir, os.R_OK)
os_access(state) == state = "readable"

(***************************************************************************)
(* Pure parts of the exporters.                                            *)
(***************************************************************************)
\* filter_boards that keeps every board.
KeepAllBoards(bs, closed) == bs

\* filter_boards(boards, closed)
filter_boards(bs, closed) == SelectSeq(bs, LAMBDA b : ~b.closed \/ closed # 0)

\* IsEligible with the limit itself allowed.
IsEligibleInclusive(a, max_size) ==
    a.bytes # None /\ (a.bytes[1] <= max_size \/ max_size = -1)

\* The condition of the comprehension of download_attachments.
IsEligible(a, max_size) ==
    a.bytes # None /\ (a.bytes[1] < max_size \/ max_size = -1)

\* attachments = [a for a in c['attachments'] if ...]
EligibleAttachments(c, max_size) ==
    SelectSeq(c.attachments, LAMBDA a : IsEligible(a, max_size))

\* sorted(cards, key=lambda card: card['pos']): a stable sort.
InsertByPos(t, x) ==
    LET k == Cardinality({i \in 1..Len(t) : t[i].pos <= x.pos})
    IN  SubSeq(t, 1, k) \o <<x>> \o SubSeq(t, k + 1, Len(t))

\* SortedByPos that leaves the order of the array.
Unsorted(s) == s

RECURSIVE SortedByPos(_)
SortedByPos(s) ==
    IF s = <<>> THEN <<>> ELSE InsertByPos(SortedByPos(Front(s)), s[Len(s)])

\* itertools.groupby(cards, key=idList): one group per maximal run of
\* consecutive cards with the same idList.
RECURSIVE GroupBy(_)
GroupBy(cs) ==
    IF cs = <<>> THEN <<>>
    ELSE LET k == cs[1].idList
             n == CHOOSE m \in 1..Len(cs) :
                      /\ \A i \in 1..m : cs[i].idList = k
                      /\ (m = Len(cs) \/ cs[m + 1].idList # k)
         IN  <<[key |-> k, group |-> SubSeq(cs, 1, n)]>> \o GroupBy(SubSeq(cs, n + 1, Len(cs)))

\* A Python dict, which keeps insertion order: a sequence of entries with
\* distinct keys. dict[key] = value replaces the value of a key it holds.
DictPut(dict, key, value) ==
    IF \E i \in 1..Len(dict) : dict[i].key = key
    THEN [i \in 1..Len(dict) |->
             IF dict[i].key = key THEN [key |-> key, value |-> value] ELSE dict[i]]
    ELSE Append(dict, [key |-> key, value |-> value])

\* key in dict
DictHas(dict, key) == \E i \in 1..Len(dict) : dict[i].key = key

\* dict[key]
DictGet(dict, key) == dict[CHOOSE i \in 1..Len(dict) : dict[i].key = key].value

\* for list_id, cards in cs: lists[list_id] = sorted(list(cards), ...): a
\* later group with the same key replaces the earlier entry.
RECURSIVE AssignGroups(_, _)
AssignGroups(dict, groups) ==
    IF groups = <<>> THEN dict
    ELSE AssignGroups(DictPut(dict, groups[1].key, SortedByPos(groups[1].group)), Tail(groups))

\* The dict lists of backup_board.
BuildLists(cs) == AssignGroups(<<>>, GroupBy(cs))

\* cards = lists[ls['id']] if ls['id'] in lists else []
CardsOfList(dict, ls) == IF DictHas(dict, ls.id) THEN DictGet(dict, ls.id) ELSE <<>>

RECURSIVE PutOrgs(_, _)
PutOrgs(data, orgs) ==
    IF orgs = <<>> THEN data
    ELSE PutOrgs(DictPut(data, orgs[1].name, orgs[1].boards), Tail(orgs))

\* org_boards_data as cli builds it from the answers of the API.
BoardIndex(a, ap) ==
    PutOrgs(<<[key |-> ME, value |-> ap.me]>>, IF a.orgs THEN ap.orgs ELSE <<>>)

(***************************************************************************)
(* State.                                                                  *)
(***************************************************************************)
VARIABLES
    args,             \* the parsed command line: d, closed_boards, orgs, attachment_size
    destState,        \* dest_dir before the run: "absent", "readable" or "unreadable"
    api,              \* what the remote API answers: me, orgs, detail
    pc,               \* position of the run
    exitCode,         \* exit status of the process, -1 while it runs
    crash,            \* the call whose exception ended the run, "" if none
    cwd,              \* the current directory of the process
    dirs,             \* the directories that exist
    files,            \* the files that exist
    requests,         \* number of metadata requests sent to the API
    stderr,           \* number of diagnostics written to sys.stderr
    org_boards_data,  \* cli: the dict from group label to board index
    gi,               \* cli: position in org_boards_data.items()
    boards,           \* cli: the filtered boards of the current group
    bi,               \* cli: position in boards
    board_details,    \* backup_board: the detail of the current board
    lists,            \* backup_board: the dict from list id to sorted cards
    li,               \* backup_board: position in board_details['lists']
    cards,            \* backup_board: the cards of the current list
    ci,               \* backup_board: position in cards
    attachments,      \* download_attachments: the attachments to download
    ai,               \* download_attachments: position in attachments
    entry,            \* the current directory when each running function was called
    made,             \* log: every os.mkdir of the run
    calls,            \* log: every call of backup_board, in order
    dl,               \* log: every attachment request
    wrote,            \* log: every write_file of the run
    returned,         \* log: every normal return of an exporter function
    sPc,              \* sanitizer specification: position
    sName,            \* sanitizer specification: the argument
    sOut              \* sanitizer specification: the result

inVars == <<args, destState, api>>
fsVars == <<cwd, dirs, files>>
cliVars == <<org_boards_data, gi, boards, bi>>
boardVars == <<board_details, lists, li>>
listVars == <<cards, ci>>
attVars == <<attachments, ai>>
logVars == <<made, calls, dl, wrote, returned>>
sanVars == <<sPc, sName, sOut>>
vars == <<inVars, pc, exitCode, crash, fsVars, requests, stderr, cliVars, boardVars,
          listVars, attVars, entry, logVars, sanVars>>

NoBoard == [name |-> <<>>, lists |-> <<>>, cards |-> <<>>]

\* The directories that exist before the run.
DirsBefore(a, ds) == IF ds = "absent" THEN {<<>>} ELSE {<<>>, <<a.d>>}

\* The state of a process that has not run yet, with command line a,
\* destination state ds and remote data ap.
ProcessState(a, ds, ap) ==
    /\ args = a
    /\ destState = ds
    /\ api = ap
    /\ exitCode = -1
    /\ crash = ""
    /\ cwd = <<>>
    /\ dirs = DirsBefore(a, ds)
    /\ files = {}
    /\ requests = 0
    /\ stderr = 0
    /\ org_boards_data = <<>>
    /\ gi = 1
    /\ boards = <<>>
    /\ bi = 1
    /\ board_details = NoBoard
    /\ lists = <<>>
    /\ li = 1
    /\ cards = <<>>
    /\ ci = 1
    /\ attachments = <<>>
    /\ ai = 1
    /\ entry = [board |-> <<>>, card |-> <<>>, att |-> <<>>]
    /\ made = {}
    /\ calls = <<>>
    /\ dl = {}
    /\ wrote = {}
    /\ returned = {}

\* The state when cli is entered.
InitProgram(a, ds, ap) ==
    /\ ProcessState(a, ds, ap)
    /\ pc = "start"
    /\ sPc = "idle"
    /\ sName = <<>>
    /\ sOut = <<>>

\* An uncaught exception ends the process with status 1.
Crashed(reason) ==
    /\ pc' = "crashed"
    /\ crash' = reason
    /\ exitCode' = 1

Running(next) ==
    /\ pc' = next
    /\ UNCHANGED <<crash, exitCode>>

\* A log entry of os.mkdir. call, list and ord place it: the number of the
\* backup_board call, the ordinal of the list and the ordinal in the name
\* (-1 where there is none); raw is the text handed to sanitize_file_name
\* (the name itself where the code does not sanitize); card and pos are the
\* card's id and position (0 where there is no card).
MadeRec(kind, raw, name, m, call, list, ord, card, pos) ==
    [kind |-> kind, raw |-> raw, name |-> name, ok |-> m.ok, path |-> m.path,
     call |-> call, list |-> list, ord |-> ord, card |-> card, pos |-> pos]

(***************************************************************************)
(* cli                                                                     *)
(***************************************************************************)
\* if os.access(dest_dir, os.R_OK): print(...); sys.exit(1)
ExitDestinationExists ==
    /\ pc = "start"
    /\ os_access(destState)
    /\ pc' = "exited"
    /\ exitCode' = 1
    /\ UNCHANGED <<inVars, crash, fsVars, requests, stderr, cliVars, boardVars, listVars,
                   attVars, entry, logVars, sanVars>>

\* os.mkdir(dest_dir); os.chdir(dest_dir)
CreateDestination ==
    /\ pc = "start"
    /\ ~os_access(destState)
    /\ LET m == Mkdir(cwd, args.d, dirs, files)
       IN  /\ made' = made \cup {MadeRec("dest", args.d, args.d, m, 0, -1, -1, 0, 0)}
           /\ IF m.ok
              THEN /\ dirs' = dirs \cup {m.path}
                   /\ cwd' = Chdir(cwd, args.d, dirs').path
                   /\ Running("fetch")
              ELSE /\ Crashed("mkdir_dest")
                   /\ UNCHANGED <<dirs, cwd>>
    /\ UNCHANGED <<inVars, files, requests, stderr, cliVars, boardVars, listVars, attVars,
                   entry, calls, dl, wrote, returned, sanVars>>

\* The requests for the board index of the member and, with -o, for the
\* organizations and the board index of each.
FetchBoardIndex ==
    /\ pc = "fetch"
    /\ org_boards_data' = BoardIndex(args, api)
    /\ requests' = requests + 1 + (IF args.orgs THEN 1 + Len(api.orgs) ELSE 0)
    /\ gi' = 1
    /\ Running("group")
    /\ UNCHANGED <<inVars, fsVars, stderr, boards, bi, boardVars, listVars, attVars, entry,
                   logVars, sanVars>>

\* One of the requests for the index raises, or its answer is not JSON:
\* nothing catches it.
IndexRequestFails ==
    /\ pc = "fetch"
    /\ \E sent \in 1..(1 + (IF args.orgs THEN 1 + Len(api.orgs) ELSE 0)) :
           requests' = requests + sent
    /\ Crashed("request_index")
    /\ UNCHANGED <<inVars, fsVars, stderr, cliVars, boardVars, listVars, attVars, entry,
                   logVars, sanVars>>

\* for org, boards in org_boards_data.items(): os.mkdir(org); os.chdir(org);
\* boards = filter_boards(boards, args.closed_boards)
EnterGroup ==
    /\ pc = "group"
    /\ gi <= Len(org_boards_data)
    /\ LET org == org_boards_data[gi].key
           m == Mkdir(cwd, org, dirs, files)
       IN  /\ made' = made \cup {MadeRec("group", org, org, m, 0, -1, -1, 0, 0)}
           /\ IF m.ok
              THEN /\ dirs' = dirs \cup {m.path}
                   /\ cwd' = Chdir(cwd, org, dirs').path
                   /\ boards' = filter_boards(org_boards_data[gi].value, args.closed_boards)
                   /\ bi' = 1
                   /\ Running("board")
              ELSE /\ Crashed("mkdir_group")
                   /\ UNCHANGED <<dirs, cwd, boards, bi>>
    /\ UNCHANGED <<inVars, files, requests, stderr, org_boards_data, gi, boardVars, listVars,
                   attVars, entry, calls, dl, wrote, returned, sanVars>>

\* The end of "for board in boards": os.chdir('..')
LeaveGroup ==
    /\ pc = "board"
    /\ bi > Len(boards)
    /\ cwd' = ChdirUp(cwd, dirs)
    /\ gi' = gi + 1
    /\ Running("group")
    /\ UNCHANGED <<inVars, dirs, files, requests, stderr, org_boards_data, boards, bi,
                   boardVars, listVars, attVars, entry, logVars, sanVars>>

\* print('Trello Full Backup Completed!')
Finish ==
    /\ pc = "group"
    /\ gi > Len(org_boards_data)
    /\ pc' = "done"
    /\ exitCode' = 0
    /\ UNCHANGED <<inVars, crash, fsVars, requests, stderr, cliVars, boardVars, listVars,
                   attVars, entry, logVars, sanVars>>

(***************************************************************************)
(* backup_board                                                            *)
(***************************************************************************)
\* backup_board(board, args) up to the loop over the lists: the request for
\* the board detail, the board directory, the full json, the dict lists.
BackupBoardBegin ==
    /\ pc = "board"
    /\ bi <= Len(boards)
    /\ LET board == boards[bi]
           details == api.detail[board.id]
           board_dir == sanitize_file_name(details.name)
           m == Mkdir(cwd, board_dir, dirs, files)
           d1 == dirs \cup {m.path}
           in == Chdir(cwd, board_dir, d1).path
           w == Open(in, board_dir \o FULL_JSON, d1)
           call == Len(calls) + 1
       IN  /\ requests' = requests + 1
           /\ calls' = Append(calls, [group |-> gi, id |-> board.id, closed |-> board.closed])
           /\ board_details' = details
           /\ entry' = [entry EXCEPT !.board = cwd]
           /\ made' = made \cup {MadeRec("board", details.name, board_dir, m, call, -1, -1, 0, 0)}
           /\ IF ~m.ok
              THEN /\ Crashed("mkdir_board")
                   /\ UNCHANGED <<fsVars, wrote, lists, li>>
              ELSE IF ~w.ok
              THEN /\ Crashed("write_board")
                   /\ dirs' = d1
                   /\ cwd' = in
                   /\ UNCHANGED <<files, wrote, lists, li>>
              ELSE /\ dirs' = d1
                   /\ cwd' = in
                   /\ files' = files \cup {w.path}
                   /\ wrote' = wrote \cup {[what |-> "board", dir |-> m.path, path |-> w.path]}
                   /\ lists' = BuildLists(details.cards)
                   /\ li' = 1
                   /\ Running("list")
    /\ UNCHANGED <<inVars, stderr, cliVars, listVars, attVars, dl, returned, sanVars>>

\* backup_board(board, args) whose request for the board detail raises, or
\* whose answer is not JSON: nothing catches it.
BoardRequestFails ==
    /\ pc = "board"
    /\ bi <= Len(boards)
    /\ requests' = requests + 1
    /\ calls' = Append(calls, [group |-> gi, id |-> boards[bi].id, closed |-> boards[bi].closed])
    /\ entry' = [entry EXCEPT !.board = cwd]
    /\ Crashed("request_board")
    /\ UNCHANGED <<inVars, fsVars, stderr, cliVars, boardVars, listVars, attVars, made, dl,
                   wrote, returned, sanVars>>

\* for id_list, ls in enumerate(board_details['lists']): the list directory
\* and the cards of the list.
ListBegin ==
    /\ pc = "list"
    /\ li <= Len(board_details.lists)
    /\ LET ls == board_details.lists[li]
           raw == Prefixed(li - 1, ls.name)
           list_name == sanitize_file_name(raw)
           m == Mkdir(cwd, list_name, dirs, files)
       IN  /\ made' = made \cup {MadeRec("list", raw, list_name, m, Len(calls), li - 1, li - 1, 0, 0)}
           /\ IF m.ok
              THEN /\ dirs' = dirs \cup {m.path}
                   /\ cwd' = Chdir(cwd, list_name, dirs').path
                   /\ cards' = CardsOfList(lists, ls)
                   /\ ci' = 1
                   /\ Running("card")
              ELSE /\ Crashed("mkdir_list")
                   /\ UNCHANGED <<dirs, cwd, cards, ci>>
    /\ UNCHANGED <<inVars, files, requests, stderr, cliVars, boardVars, attVars, entry,
                   calls, dl, wrote, returned, sanVars>>

\* The end of "for id_card, c in enumerate(cards)": os.chdir('..')
ListEnd ==
    /\ pc = "card"
    /\ ci > Len(cards)
    /\ cwd' = ChdirUp(cwd, dirs)
    /\ li' = li + 1
    /\ Running("list")
    /\ UNCHANGED <<inVars, dirs, files, requests, stderr, cliVars, board_details, lists,
                   listVars, attVars, entry, logVars, sanVars>>

\* The end of the loop over the lists: os.chdir('..'), and backup_board returns.
BackupBoardEnd ==
    /\ pc = "list"
    /\ li > Len(board_details.lists)
    /\ cwd' = ChdirUp(cwd, dirs)
    /\ returned' = returned \cup
           {[fn |-> "backup_board", call |-> Len(calls), list |-> -1, ord |-> -1, card |-> 0,
             entry |-> entry.board, exit |-> cwd']}
    /\ bi' = bi + 1
    /\ Running("board")
    /\ UNCHANGED <<inVars, dirs, files, requests, stderr, org_boards_data, gi, boards,
                   boardVars, listVars, attVars, entry, made, calls, dl, wrote, sanVars>>

(***************************************************************************)
(* backup_card and download_attachments                                    *)
(***************************************************************************)
\* backup_card(id_card, c, attachment_size) up to the loop of
\* download_attachments: the card directory, card.json, description.md, the
\* filter of the attachments and the attachments directory.
BackupCardBegin ==
    /\ pc = "card"
    /\ ci <= Len(cards)
    /\ LET c == cards[ci]
           raw == Prefixed(ci - 1, c.name)
           card_name == sanitize_file_name(raw)
           m == Mkdir(cwd, card_name, dirs, files)
           d1 == dirs \cup {m.path}
           in == Chdir(cwd, card_name, d1).path
           w1 == Open(in, CARD_JSON, d1)
           w2 == Open(in, DESCRIPTION_MD, d1)
           f1 == files \cup {w1.path, w2.path}
           atts == EligibleAttachments(c, args.attachment_size)
           m2 == Mkdir(in, ATTACHMENTS, d1, f1)
           d2 == d1 \cup {m2.path}
           call == Len(calls)
       IN  /\ entry' = [entry EXCEPT !.card = cwd, !.att = in]
           /\ IF ~m.ok
              THEN /\ Crashed("mkdir_card")
                   /\ made' = made \cup {MadeRec("card", raw, card_name, m, call, li - 1, ci - 1, c.id, c.pos)}
                   /\ UNCHANGED <<fsVars, wrote, returned, attVars>>
              ELSE IF ~(w1.ok /\ w2.ok)
              THEN /\ Crashed("write_card")
                   /\ made' = made \cup {MadeRec("card", raw, card_name, m, call, li - 1, ci - 1, c.id, c.pos)}
                   /\ dirs' = d1
                   /\ cwd' = in
                   /\ UNCHANGED <<files, wrote, returned, attVars>>
              ELSE /\ files' = f1
                   /\ wrote' = wrote \cup
                          {[what |-> "card.json", dir |-> m.path, path |-> w1.path],
                           [what |-> "description.md", dir |-> m.path, path |-> w2.path]}
                   /\ attachments' = atts
                   /\ ai' = 1
                   /\ IF Len(atts) = 0
                      THEN /\ made' = made \cup {MadeRec("card", raw, card_name, m, call, li - 1, ci - 1, c.id, c.pos)}
                           /\ dirs' = d1
                           /\ cwd' = in
                           /\ returned' = returned \cup
                                  {[fn |-> "download_attachments", call |-> call, list |-> li - 1,
                                    ord |-> ci - 1, card |-> c.id, entry |-> in, exit |-> in]}
                           /\ Running("cardexit")
                      ELSE IF ~m2.ok
                      THEN /\ made' = made \cup
                                  {MadeRec("card", raw, card_name, m, call, li - 1, ci - 1, c.id, c.pos),
                                   MadeRec("attachments", ATTACHMENTS, ATTACHMENTS, m2, call, li - 1, ci - 1, c.id, c.pos)}
                           /\ dirs' = d1
                           /\ cwd' = in
                           /\ UNCHANGED returned
                           /\ Crashed("mkdir_attachments")
                      ELSE /\ made' = made \cup
                                  {MadeRec("card", raw, card_name, m, call, li - 1, ci - 1, c.id, c.pos),
                                   MadeRec("attachments", ATTACHMENTS, ATTACHMENTS, m2, call, li - 1, ci - 1, c.id, c.pos)}
                           /\ dirs' = d2
                           /\ cwd' = Chdir(in, ATTACHMENTS, d2).path
                           /\ UNCHANGED returned
                           /\ Running("attach")
    /\ UNCHANGED <<inVars, requests, stderr, cliVars, boardVars, listVars, calls, dl, sanVars>>

\* attachment_name of the attachment the loop of download_attachments is at.
AttachmentName == sanitize_file_name(Prefixed(ai - 1, attachments[ai].name))

\* A log entry of one pass of the loop of download_attachments.
DlRec(outcome, path) ==
    [call |-> Len(calls), list |-> li - 1, card |-> cards[ci].id, url |-> attachments[ai].url,
     bytes |-> attachments[ai].bytes, ord |-> ai - 1, name |-> AttachmentName, dir |-> cwd,
     outcome |-> outcome, path |-> path]

\* requests.get raises (no connection, timeout): the diagnostic, and continue.
DownloadRequestFails ==
    /\ pc = "attach"
    /\ ai <= Len(attachments)
    /\ stderr' = stderr + 1
    /\ dl' = dl \cup {DlRec("request_failed", <<>>)}
    /\ ai' = ai + 1
    /\ Running("attach")
    /\ UNCHANGED <<inVars, fsVars, requests, cliVars, boardVars, listVars, attachments, entry,
                   made, calls, wrote, returned, sanVars>>

\* requests.get returns a response, of a success status or not, and its body
\* is streamed into the file.
DownloadSaved ==
    /\ pc = "attach"
    /\ ai <= Len(attachments)
    /\ \E status \in {"success", "http_error"} :
           LET w == Open(cwd, AttachmentName, dirs)
           IN  IF w.ok
               THEN /\ files' = files \cup {w.path}
                    /\ dl' = dl \cup {DlRec(status, w.path)}
                    /\ ai' = ai + 1
                    /\ Running("attach")
               ELSE /\ dl' = dl \cup {DlRec("open_failed", <<>>)}
                    /\ Crashed("open_attachment")
                    /\ UNCHANGED <<files, ai>>
    /\ UNCHANGED <<inVars, cwd, dirs, requests, stderr, cliVars, boardVars, listVars,
                   attachments, entry, made, calls, wrote, returned, sanVars>>

\* requests.get returns a response and content.iter_content raises while the
\* body is streamed (connection lost, read timeout): nothing catches it.
DownloadStreamFails ==
    /\ pc = "attach"
    /\ ai <= Len(attachments)
    /\ LET w == Open(cwd, AttachmentName, dirs)
       IN  /\ files' = IF w.ok THEN files \cup {w.path} ELSE files
           /\ dl' = dl \cup {DlRec("stream_failed", <<>>)}
           /\ Crashed(IF w.ok THEN "stream" ELSE "open_attachment")
    /\ UNCHANGED <<inVars, cwd, dirs, requests, stderr, cliVars, boardVars, listVars,
                   attVars, entry, made, calls, wrote, returned, sanVars>>

\* The end of the loop of download_attachments: os.chdir('..'), and
\* download_attachments returns.
DownloadAttachmentsEnd ==
    /\ pc = "attach"
    /\ ai > Len(attachments)
    /\ cwd' = ChdirUp(cwd, dirs)
    /\ returned' = returned \cup
           {[fn |-> "download_attachments", call |-> Len(calls), list |-> li - 1,
             ord |-> ci - 1, card |-> cards[ci].id, entry |-> entry.att, exit |-> cwd']}
    /\ Running("cardexit")
    /\ UNCHANGED <<inVars, dirs, files, requests, stderr, cliVars, boardVars, listVars,
                   attVars, entry, made, calls, dl, wrote, sanVars>>

\* The end of backup_card: os.chdir('..'), and backup_card returns.
BackupCardEnd ==
    /\ pc = "cardexit"
    /\ cwd' = ChdirUp(cwd, dirs)
    /\ returned' = returned \cup
           {[fn |-> "backup_card", call |-> Len(calls), list |-> li - 1, ord |-> ci - 1,
             card |-> cards[ci].id, entry |-> entry.card, exit |-> cwd']}
    /\ ci' = ci + 1
    /\ Running("card")
    /\ UNCHANGED <<inVars, dirs, files, requests, stderr, cliVars, boardVars, cards, attVars,
                   entry, made, calls, dl, wrote, sanVars>>

Next ==
    \/ ExitDestinationExists
    \/ CreateDestination
    \/ FetchBoardIndex
    \/ IndexRequestFails
    \/ EnterGroup
    \/ LeaveGroup
    \/ Finish
    \/ BackupBoardBegin
    \/ BoardRequestFails
    \/ ListBegin
    \/ ListEnd
    \/ BackupBoardEnd
    \/ BackupCardBegin
    \/ DownloadRequestFails
    \/ DownloadSaved
    \/ DownloadStreamFails
    \/ DownloadAttachmentsEnd
    \/ BackupCardEnd

(***************************************************************************)
(* Inputs.                                                                 *)
(***************************************************************************)
DestName == <<"d">>
DestStates == {"absent", "readable", "unreadable"}

Attachment(url, bytes) == [name |-> <<"a">>, bytes |-> bytes, url |-> url]
Card(id, idList, pos, name, atts) ==
    [id |-> id, idList |-> idList, pos |-> pos, name |-> name, desc |-> <<>>, attachments |-> atts]
BoardSummary(id) == [id |-> id, closed |-> id % 2 = 0]

\* All sequences of distinct elements of S.
RECURSIVE DistinctSeqs(_)
DistinctSeqs(S) ==
    {<<>>} \cup UNION {{<<x>> \o t : t \in DistinctSeqs(S \ {x})} : x \in S}

\* All sequences over S of length at most n.
RECURSIVE SeqsUpTo(_, _)
SeqsUpTo(S, n) ==
    IF n = 0 THEN {<<>>}
    ELSE LET shorter == SeqsUpTo(S, n - 1)
         IN  shorter \cup {Append(t, x) : t \in {u \in shorter : Len(u) = n - 1}, x \in S}

(* The orchestrator's inputs: any board index of the member, with -o up to
   MaxOrgs organizations of any of four names with at most one board each,
   either value of the closed-boards flag. Board 1 has one list with one
   card with one attachment below the limit; even boards are closed; every
   board but board 2 is named "a". *)
OrgNames == {<<"o">>, ME, <<"m", "e", "/", "x">>, <<"a", ":", "b">>}

CliDetail(id) ==
    [name |-> IF id = 2 THEN <<"b">> ELSE <<"a">>,
     lists |-> IF id = 1 THEN <<[id |-> 1, name |-> <<"a">>]>> ELSE <<>>,
     cards |-> IF id = 1 THEN <<Card(1, 1, 1, <<"a">>, <<Attachment(1, <<1>>)>>)>> ELSE <<>>]

CliIndices == {[i \in 1..Len(s) |-> BoardSummary(s[i])] : s \in DistinctSeqs(1..NumBoards)}

CliOrgs ==
    SeqsUpTo({[name |-> n, boards |-> b] :
                  n \in OrgNames, b \in {x \in CliIndices : Len(x) <= 1}}, MaxOrgs)

Init ==
    \E closed \in {0, 1}, orgs \in BOOLEAN, ds \in DestStates, me \in CliIndices, os \in CliOrgs :
        /\ (~orgs => os = <<>>)
        /\ InitProgram([d |-> DestName, closed_boards |-> closed, orgs |-> orgs, attachment_size |-> 2],
                       ds,
                       [me |-> me, orgs |-> os, detail |-> [id \in 1..NumBoards |-> CliDetail(id)]])

Spec == Init /\ [][Next]_vars


\* The remote data of an account with the single open board 1.
OneBoard(detail) ==
    [me |-> <<BoardSummary(1)>>, orgs |-> <<>>, detail |-> [id \in {1} |-> detail]]

OneBoardArgs(limit) ==
    [d |-> DestName, closed_boards |-> 0, orgs |-> FALSE, attachment_size |-> limit]

(* The board exporter's inputs: one board with lists 1..k and any cards
   array of at most MaxCards cards, each in any of the lists 1..NumLists at
   either position; the first card of the array has an attachment. *)
Positions == {1, 2}

BoardCards ==
    {[i \in 1..Len(s) |->
         Card(i, s[i][1], s[i][2], <<"a">>, IF i = 1 THEN <<Attachment(1, <<1>>)>> ELSE <<>>)] :
     s \in SeqsUpTo((1..NumLists) \X Positions, MaxCards)}

InitBoard ==
    \E ds \in DestStates, k \in 0..NumLists, cs \in BoardCards :
        InitProgram(OneBoardArgs(2), ds,
                    OneBoard([name |-> <<"a">>,
                              lists |-> [i \in 1..k |-> [id |-> i, name |-> <<"a">>]],
                              cards |-> cs]))

SpecBoard == InitBoard /\ [][Next]_vars

(* The inputs for the directory names: one board whose lists, or whose
   cards of its one list, have display names that sanitize to the same text
   or that reach the length limit once prefixed. *)
NameChoices ==
    {<<":">>, <<"/">>, Rep("a", FILE_NAME_MAX_LENGTH - 2), Rep("a", FILE_NAME_MAX_LENGTH - 1)}

NamedLists(ns) == [i \in 1..Len(ns) |-> [id |-> i, name |-> ns[i]]]
NamedCards(ns) ==
    [i \in 1..Len(ns) |->
        Card(i, 1, i, ns[i], IF i = 1 THEN <<Attachment(1, <<1>>)>> ELSE <<>>)]

InitNames ==
    \E ds \in DestStates :
        \/ \E ns \in SeqsUpTo(NameChoices, NumLists) :
               InitProgram(OneBoardArgs(2), ds,
                           OneBoard([name |-> <<"a">>, lists |-> NamedLists(ns),
                                     cards |-> NamedCards(<<<<"a">>>>)]))
        \/ \E ns \in SeqsUpTo(NameChoices, MaxCards) :
               InitProgram(OneBoardArgs(2), ds,
                           OneBoard([name |-> <<"a">>, lists |-> NamedLists(<<<<"a">>>>),
                                     cards |-> NamedCards(ns)]))

SpecNames == InitNames /\ [][Next]_vars

(* The attachment fetcher's inputs: one card with at most MaxAtts
   attachments, each of unknown size or of a size in 0..MaxBytes, under the
   limit -1 or a limit in 0..MaxLimit. *)
ByteChoices == {None} \cup {<<n>> : n \in 0..MaxBytes}

InitAtt ==
    \E ds \in DestStates, limit \in {-1} \cup (0..MaxLimit), bs \in SeqsUpTo(ByteChoices, MaxAtts) :
        InitProgram(OneBoardArgs(limit), ds,
                    OneBoard([name |-> <<"a">>, lists |-> NamedLists(<<<<"a">>>>),
                              cards |-> <<Card(1, 1, 1, <<"a">>,
                                               [i \in 1..Len(bs) |-> Attachment(i, bs[i])])>>]))

SpecAtt == InitAtt /\ [][Next]_vars

(***************************************************************************)
(* The sanitizer alone.                                                    *)
(***************************************************************************)
\* The names handed to the sanitizer: every short text, and texts around the
\* length limit that end in a short text.
SanitizerInputs ==
    TextsUpTo(MaxNameLen)
    \cup {Rep("a", FILE_NAME_MAX_LENGTH + k - 1) \o t : k \in 0..2, t \in TextsUpTo(1)}

InitSanitize ==
    /\ ProcessState([d |-> DestName, closed_boards |-> 0, orgs |-> FALSE, attachment_size |-> 0],
                    "absent", [me |-> <<>>, orgs |-> <<>>, detail |-> <<>>])
    /\ pc = "idle"
    /\ sPc = "call"
    /\ sName \in SanitizerInputs
    /\ sOut = <<>>

\* One call of sanitize_file_name.
Sanitize ==
    /\ sPc = "call"
    /\ sOut' = sanitize_file_name(sName)
    /\ sPc' = "returned"
    /\ UNCHANGED <<inVars, pc, exitCode, crash, fsVars, requests, stderr, cliVars, boardVars,
                   listVars, attVars, entry, logVars, sName>>

NextSanitize == Sanitize

SpecSanitize == InitSanitize /\ [][NextSanitize]_vars

(***************************************************************************)
(* Properties.                                                             *)
(***************************************************************************)
\* The detail of the board the call-th call of backup_board exports.
DetailOfCall(call) == api.detail[calls[call].id]

\* The log entries of the directories made for kind by one backup_board call.
MadeBy(kind, call) == {m \in made : m.kind = kind /\ m.call = call /\ m.ok}

\* C1: when backup_board returns for a board whose cards all belong to one of
\* its M lists, it has made exactly M list directories and exactly one card
\* directory for each of the N cards of the cards array.
C1_EveryCardExportedOnce ==
    \A r \in returned :
        r.fn = "backup_board" =>
            LET b == DetailOfCall(r.call)
            IN  (\A i \in 1..Len(b.cards) : \E j \in 1..Len(b.lists) : b.lists[j].id = b.cards[i].idList)
                    => /\ Cardinality(MadeBy("list", r.call)) = Len(b.lists)
                       /\ Cardinality(MadeBy("card", r.call)) = Len(b.cards)
                       /\ \A i \in 1..Len(b.cards) :
                              Cardinality({m \in MadeBy("card", r.call) : m.card = b.cards[i].id}) = 1

\* C2: whenever the name handed to sanitize_file_name contains one of the eight
\* characters < > : / \ | ? *, the returned text contains none of them.
C2_OutputHasNoDocumentedForbidden ==
    (sPc = "returned" /\ \E i \in 1..Len(sName) : sName[i] \in DocumentedForbidden)
        => \A j \in 1..Len(sOut) : sOut[j] \notin DocumentedForbidden

\* An attachment of a known size strictly below the limit.
BelowLimit(a, limit) == a.bytes # None /\ a.bytes[1] < limit

\* The card with the given id in the board of a backup_board call.
CardOfCall(call, id) ==
    LET cs == DetailOfCall(call).cards
    IN  cs[CHOOSE i \in 1..Len(cs) : cs[i].id = id]

\* The position of the attachment with the given url in a card.
IndexOfUrl(c, url) == CHOOSE i \in 1..Len(c.attachments) : c.attachments[i].url = url

\* C3 as stated: under a limit L >= 0, when download_attachments returns, no
\* attachment larger than L was requested and every attachment of a known
\* size at or below L was.
C3_AtOrBelowLimitDownloaded ==
    \A r \in returned :
        (r.fn = "download_attachments" /\ args.attachment_size >= 0) =>
            LET c == CardOfCall(r.call, r.card)
            IN  \A i \in 1..Len(c.attachments) :
                    LET a == c.attachments[i]
                        asked == \E d \in dl : d.call = r.call /\ d.card = r.card /\ d.url = a.url
                    IN  /\ (a.bytes # None /\ a.bytes[1] > args.attachment_size) => ~asked
                        /\ (a.bytes # None /\ a.bytes[1] <= args.attachment_size) => asked

\* C3 amended: under a limit L >= 0, an attachment of unknown size or of a
\* size at or above L is never requested or written; every pass of the loop
\* runs in the attachments directory of the card's own directory under the
\* name sanitize_file_name(ordinal_name), the ordinal counting the earlier
\* attachments below L, and what it writes is that file; and when
\* download_attachments returns, every attachment of a known size below L
\* was requested.
C3_BelowLimitDownloaded ==
    args.attachment_size >= 0 =>
        /\ \A d \in dl :
               LET c == CardOfCall(d.call, d.card)
                   i == IndexOfUrl(c, d.url)
                   rank == Cardinality({j \in 1..(i - 1) :
                                            BelowLimit(c.attachments[j], args.attachment_size)})
               IN  /\ BelowLimit(c.attachments[i], args.attachment_size)
                   /\ d.ord = rank
                   /\ d.name = sanitize_file_name(Prefixed(rank, c.attachments[i].name))
                   /\ \E m \in made :
                          /\ m.kind = "card" /\ m.ok /\ m.call = d.call /\ m.card = d.card
                          /\ d.dir = Append(m.path, ATTACHMENTS)
                   /\ d.outcome \in {"success", "http_error"} =>
                          (d.path = Append(d.dir, d.name) /\ d.path \in files)
        /\ \A r \in returned :
               r.fn = "download_attachments" =>
                   LET c == CardOfCall(r.call, r.card)
                   IN  \A i \in 1..Len(c.attachments) :
                           BelowLimit(c.attachments[i], args.attachment_size) =>
                               \E d \in dl : d.call = r.call /\ d.card = r.card
                                             /\ d.url = c.attachments[i].url

\* C3 witness: download_attachments has returned from a card whose first
\* attachment has exactly the size of the limit and was not requested and
\* whose second, smaller one was saved under ordinal 0.
C3_Witness ==
    /\ args.attachment_size >= 0
    /\ \E r \in returned :
           /\ r.fn = "download_attachments"
           /\ LET c == CardOfCall(r.call, r.card)
              IN  /\ Len(c.attachments) = 2
                  /\ c.attachments[1].bytes = <<args.attachment_size>>
                  /\ ~\E d \in dl : d.url = c.attachments[1].url
                  /\ \E d \in dl : /\ d.url = c.attachments[2].url
                                   /\ d.outcome = "success"
                                   /\ d.ord = 0

\* C4: the failed download of an attachment (the request raised, the status
\* was not a success, the stream broke) does not end the run: no run with
\* such a download is ended by an exception of download_attachments.
C4_DownloadFailureNeverAborts ==
    (\E d \in dl : d.outcome \in {"request_failed", "http_error", "stream_failed"})
        => ~(pc = "crashed" /\ crash \in {"stream", "open_attachment"})

\* C5: when the destination exists and is readable the run does nothing but
\* exit with status 1: no directory or file is made, no request is sent and
\* the current directory stays.
C5_ExistingDestinationExits ==
    destState = "readable" =>
        /\ pc \in {"start", "exited"}
        /\ pc = "exited" => exitCode = 1
        /\ pc = "start" => exitCode = -1
        /\ dirs = {<<>>, <<args.d>>}
        /\ files = {}
        /\ made = {}
        /\ requests = 0
        /\ dl = {}
        /\ cwd = <<>>

\* C5 witness: the run has ended on a readable destination.
C5_Witness == destState = "readable" /\ pc = "exited"

\* The card directories made in one list directory.
CardsMadeIn(call, list) == {m \in MadeBy("card", call) : m.list = list}

\* C6: of two cards exported into one list directory, the one with the
\* smaller ordinal has the smaller or equal position, and the ordinals of
\* the k cards of a list directory are exactly 0..k-1.
C6_OrdinalsFollowPosition ==
    \A m1 \in made :
        (m1.kind = "card" /\ m1.ok) =>
            LET sibs == CardsMadeIn(m1.call, m1.list)
            IN  /\ \A m2 \in sibs : m1.ord < m2.ord => m1.pos <= m2.pos
                /\ {m.ord : m \in sibs} = 0..(Cardinality(sibs) - 1)

\* C6 witness: a board was exported in which a card that comes later in the
\* cards array got the smaller ordinal in the same list directory.
C6_Witness ==
    /\ \E r \in returned : r.fn = "backup_board"
    /\ \E m1, m2 \in made :
           /\ m1.kind = "card" /\ m2.kind = "card" /\ m1.ok /\ m2.ok
           /\ m1.call = m2.call /\ m1.list = m2.list
           /\ m1.card > m2.card /\ m1.ord < m2.ord /\ m1.pos < m2.pos

\* The boards of an index to export under the closed-boards flag: the open
\* ones, or all of them when the flag is set.
Wanted(index, flag) == SelectSeq(index, LAMBDA b : flag = 1 \/ ~b.closed)

\* The ids of the boards backup_board was called for in group g, in order.
CalledIn(g) ==
    LET cs == SelectSeq(calls, LAMBDA c : c.group = g)
    IN  [i \in 1..Len(cs) |-> cs[i].id]

IsPrefix(s, t) == Len(s) <= Len(t) /\ s = SubSeq(t, 1, Len(s))

\* The label of the member's own group.
MeLabel == <<"m", "e">>

Siblings(m1, m2) ==
    /\ m1.kind = m2.kind
    /\ m1.kind \in {"list", "card"}
    /\ m1.call = m2.call
    /\ m1.list = m2.list \/ m1.kind = "list"
    /\ m1.ord # m2.ord

\* C8 as stated: whatever the display names, two lists of one board, and two
\* cards of one list, get different directory names, and no mkdir of a list
\* or card directory fails.
C8_OrdinalPrefixesUnique ==
    /\ \A m1, m2 \in made : Siblings(m1, m2) => m1.name # m2.name
    /\ crash \notin {"mkdir_list", "mkdir_card"}

\* C8 amended: two lists of one board, and two cards of one list, whose
\* prefixed names ordinal_name are both at most FILE_NAME_MAX_LENGTH
\* characters long get different directory names, so the mkdir of the later
\* one does not collide with the directory of the earlier one.
C8_UniqueWhenNotTruncated ==
    \A m1, m2 \in made :
        (/\ Siblings(m1, m2)
         /\ Len(m1.raw) <= FILE_NAME_MAX_LENGTH
         /\ Len(m2.raw) <= FILE_NAME_MAX_LENGTH)
            => m1.name # m2.name

\* C8 witness: two lists of one board whose display names sanitize to the
\* same text were both made, under different names.
C8_Witness ==
    \E m1, m2 \in made :
        /\ Siblings(m1, m2)
        /\ m1.kind = "list" /\ m1.ok /\ m2.ok
        /\ m1.raw = <<"0", "_", ":">>
        /\ m2.raw = <<"1", "_", "/">>
        /\ m1.name # m2.name

\* C9: every group, board, list and card directory the run makes has a name
\* without any of the eight documented characters and of at most
\* FILE_NAME_MAX_LENGTH characters.
C9_CreatedNamesSanitized ==
    \A m \in made :
        (m.ok /\ m.kind \in {"group", "board", "list", "card"}) =>
            LET name == m.path[Len(m.path)]
            IN  /\ \A i \in 1..Len(name) : name[i] \notin DocumentedForbidden
                /\ Len(name) <= FILE_NAME_MAX_LENGTH

\* C10: download_attachments, backup_card and backup_board return with the
\* current directory they were called with; once the destination is entered
\* the current directory is 1 to 6 levels below the start directory; and
\* card.json and description.md are written in their card's directory.
C10_CursorBalanced ==
    /\ \A r \in returned : r.exit = r.entry
    /\ pc \in {"fetch", "group", "board", "list", "card", "attach", "cardexit", "done"}
           => Len(cwd) \in 1..6
    /\ \A w \in wrote :
           w.what = "card.json" => w.path = Append(w.dir, CARD_JSON)
    /\ \A w \in wrote :
           w.what = "description.md" => w.path = Append(w.dir, DESCRIPTION_MD)

====
